---- MODULE Spec2Model ----
(***************************************************************************)
(* Model of topology_lib_ip/library.py: the command builders (interface,   *)
(* sub_interface, remove_ip, add_route, add_link_type_vlan,                *)
(* remove_link_type_vlan, show_interface) and the two output parsers.      *)
(*                                                                         *)
(* Text is a sequence of atoms.  An atom is a run of characters of one     *)
(* character class (a word, a single digit, a punctuation character, a     *)
(* blank, a line break, an address literal), so that the regular           *)
(* expressions of the parsers are evaluated position by position on it.    *)
(***************************************************************************)
EXTENDS Integers, Sequences, FiniteSets, TLC

VARIABLES ports, call, input

vars == <<ports, call, input>>

\* Python's None, for an optional argument that was not given.
None == "None"

----------------------------------------------------------------------------
(* Atoms and character classes                                             *)

SP == " "
NL == "\n"
SLASH == "/"
COLON == ":"
LT == "<"
GT == ">"
DNE == "does not exist"

Digits == {"0", "1", "2", "3", "4", "5", "6", "7", "8", "9"}

DigitVal(a) == CASE a = "0" -> 0 [] a = "1" -> 1 [] a = "2" -> 2 [] a = "3" -> 3
                 [] a = "4" -> 4 [] a = "5" -> 5 [] a = "6" -> 6 [] a = "7" -> 7
                 [] a = "8" -> 8 [] a = "9" -> 9

\* Atoms made of letters, digits and underscores only (the class \w).
Words == {"Device", "eth0", "eth7", "UP", "mtu", "state", "link", "ether",
          "brd", "inet", "inet6", "peer", "scope", "global", "host",
          "valid_lft", "forever", "RX", "TX", "bytes", "packets"}

\* Atoms without blanks that are neither words nor punctuation.
Quoted == {"\"eth7\""}

IsSpace(a) == a \in {SP, NL}
IsDigit(a) == a \in Digits
IsWord(a) == a \in Words \/ IsDigit(a)
IsNonSpace(a) == ~IsSpace(a)

\* str.isdigit() of a captured value: non-empty and digits only.
isdigit(s) == Len(s) > 0 /\ \A i \in 1..Len(s) : IsDigit(s[i])

RECURSIVE int(_)
\* int() of a digit string.
int(s) == IF Len(s) = 0 THEN 0
          ELSE 10 * int(SubSeq(s, 1, Len(s) - 1)) + DigitVal(s[Len(s)])

\* A dictionary value: text as captured, or the integer it was converted to.
StrVal(s) == [t |-> "str", s |-> s, n |-> 0]
IntVal(n) == [t |-> "int", s |-> <<>>, n |-> n]

\* The slice t[i..j] of a text (empty if j < i).
Slice(t, i, j) == IF j < i THEN <<>> ELSE SubSeq(t, i, j)

\* The atom at position i, or the empty string outside the text.
At(t, i) == IF i >= 1 /\ i <= Len(t) THEN t[i] ELSE ""

RECURSIVE DigitRunEnd(_, _)
\* End of the maximal run of digits that starts at i.
DigitRunEnd(t, i) == IF IsDigit(At(t, i + 1)) THEN DigitRunEnd(t, i + 1) ELSE i

RECURSIVE NonSpaceRunEnd(_, _)
\* End of the maximal run of non-blank atoms that starts at i.
NonSpaceRunEnd(t, i) == IF i < Len(t) /\ IsNonSpace(t[i + 1])
                        THEN NonSpaceRunEnd(t, i + 1) ELSE i

RECURSIVE WordRunEnd(_, _)
\* End of the maximal run of word atoms that starts at i.
WordRunEnd(t, i) == IF IsWord(At(t, i + 1)) THEN WordRunEnd(t, i + 1) ELSE i

RECURSIVE FirstNonSpace(_, _)
\* First non-blank position at or after i, or 0.
FirstNonSpace(t, i) == IF i > Len(t) THEN 0
                       ELSE IF IsSpace(t[i]) THEN FirstNonSpace(t, i + 1)
                       ELSE i

\* First position after a run of one or more blanks starting at i, or 0.
AfterSpaces(t, i) == IF IsSpace(At(t, i)) THEN FirstNonSpace(t, i) ELSE 0

Min(S) == CHOOSE x \in S : \A y \in S : x <= y
Max(S) == CHOOSE x \in S : \A y \in S : x >= y

RECURSIVE FirstSlash(_, _)
\* Position of the first '/' at or after i, or 0.
FirstSlash(t, i) == IF i > Len(t) THEN 0
                    ELSE IF t[i] = SLASH THEN i
                    ELSE FirstSlash(t, i + 1)

----------------------------------------------------------------------------
\* _parse_ip_addr_show: the 'does not exist' marker, searched as
\*   "(?P<dev>\S+)"\s+does not exist

HasMarker(t) == \E i \in 1..Len(t) :
                   /\ t[i] \in Quoted
                   /\ AfterSpaces(t, i + 1) # 0
                   /\ t[AfterSpaces(t, i + 1)] = DNE

----------------------------------------------------------------------------
\* _parse_ip_addr_show: the 'always there' group, searched with DOTALL as
\*   \s*(?P<os_index>\d+):\s+(?P<dev>\S+):\s+<(?P<falgs_str>.*)?>.*?
\*   mtu\s+(?P<mtu>\d+).+?state\s+(?P<state>\w+).*
\*   \s*link/(?P<link_type>\w+)\s+(?P<mac_address>\S+)

\* link/(\w+)\s+(\S+) at position l.
LinkAt(t, l) == /\ At(t, l) = "link"
                /\ At(t, l + 1) = SLASH
                /\ IsWord(At(t, l + 2))
                /\ AfterSpaces(t, WordRunEnd(t, l + 2) + 1) # 0

\* state\s+(\w+) at position s, with a link/ group somewhere after it.
StateAt(t, s) == /\ At(t, s) = "state"
                 /\ IsWord(At(t, AfterSpaces(t, s + 1)))
                 /\ \E l \in (WordRunEnd(t, AfterSpaces(t, s + 1)) + 1)..Len(t) :
                       LinkAt(t, l)

\* Start of the digits of mtu\s+(\d+) at position m, or 0.
MtuDigits(t, m) == IF At(t, m) = "mtu" /\ IsDigit(At(t, AfterSpaces(t, m + 1)))
                   THEN AfterSpaces(t, m + 1) ELSE 0

\* mtu\s+(\d+) at position m with the digits ending at me, then .+?state.
MtuAt(t, m, me) == /\ MtuDigits(t, m) # 0
                   /\ me \in MtuDigits(t, m)..DigitRunEnd(t, MtuDigits(t, m))
                   /\ \E s \in (me + 2)..Len(t) : StateAt(t, s)

\* mtu\s+(\d+).+?state at position m, for some end of the digits.
MtuOk(t, m) ==
    /\ MtuDigits(t, m) # 0
    /\ \E me \in MtuDigits(t, m)..DigitRunEnd(t, MtuDigits(t, m)) : MtuAt(t, m, me)

\* The '>' that closes the flags at position g, with the rest after it.
GtAt(t, g) == /\ At(t, g) = GT
              /\ \E m \in (g + 1)..Len(t) : MtuOk(t, m)

\* Position of the '<' of a head '(\d+):\s+(\S+):\s+<' whose digits start
\* at d, or 0 when there is no such head at d.
HeadLt(t, d) ==
    IF ~IsDigit(At(t, d)) \/ IsDigit(At(t, d - 1)) THEN 0
    ELSE LET e == DigitRunEnd(t, d)
             r == AfterSpaces(t, e + 2)
         IN IF At(t, e + 1) # COLON \/ r = 0 THEN 0
            ELSE LET q == NonSpaceRunEnd(t, r)
                     lt == AfterSpaces(t, q + 1)
                 IN IF q > r /\ t[q] = COLON /\ lt # 0 /\ At(t, lt) = LT
                    THEN lt ELSE 0

HeadAt(t, d) == /\ HeadLt(t, d) # 0
                /\ \E g \in (HeadLt(t, d) + 1)..Len(t) : GtAt(t, g)

MandatoryMatches(t) == \E d \in 1..Len(t) : HeadAt(t, d)

\* groupdict() of the leftmost match, group by group: greedy parts take the
\* last feasible position, lazy ones the first.

\* link_type and mac_address, for link/ at position l.
MacGroup(t, ma) == [mac_address |-> Slice(t, ma, NonSpaceRunEnd(t, ma))]

LinkGroups(t, l) ==
    [link_type |-> Slice(t, l + 2, WordRunEnd(t, l + 2))]
    @@ MacGroup(t, AfterSpaces(t, WordRunEnd(t, l + 2) + 1))

\* state, for its word at position sw; '.*' then runs to the last link/.
StateGroups(t, sw) ==
    [state |-> Slice(t, sw, WordRunEnd(t, sw))]
    @@ LinkGroups(t, Max({x \in (WordRunEnd(t, sw) + 1)..Len(t) : LinkAt(t, x)}))

\* mtu, for its digits md..me; '.+?' then runs to the first state.
MtuGroupsTo(t, md, me) ==
    [mtu |-> Slice(t, md, me)]
    @@ StateGroups(t, AfterSpaces(t, Min({x \in (me + 2)..Len(t) : StateAt(t, x)}) + 1))

\* '\d+' takes as many digits as leave a match.
MtuGroups(t, m) ==
    MtuGroupsTo(t, MtuDigits(t, m),
                Max({x \in m..Len(t) : MtuAt(t, m, x)}))

\* falgs_str, for '<' at lt and '>' at g; '.*?' then runs to the first mtu.
FlagGroupsTo(t, lt, g) ==
    [falgs_str |-> Slice(t, lt + 1, g - 1)]
    @@ MtuGroups(t, Min({x \in (g + 1)..Len(t) : MtuOk(t, x)}))

\* '.*' in the flags runs to the last '>' that leaves a match.
FlagGroups(t, lt) ==
    FlagGroupsTo(t, lt, Max({x \in (lt + 1)..Len(t) : GtAt(t, x)}))

DevGroup(t, r) == [dev |-> Slice(t, r, NonSpaceRunEnd(t, r) - 1)]

HeadGroups(t, d) ==
    [os_index |-> Slice(t, d, DigitRunEnd(t, d))]
    @@ DevGroup(t, AfterSpaces(t, DigitRunEnd(t, d) + 2))
    @@ FlagGroups(t, HeadLt(t, d))

MandatoryGroups(t) == HeadGroups(t, Min({x \in 1..Len(t) : HeadAt(t, x)}))

----------------------------------------------------------------------------
\* _parse_ip_addr_show: the optional inet and inet6 groups, searched as
\*   ((inet )\s*(?P<inet>[^/]+)/(?P<inet_mask>\d{1,2}))
\*   ((?<=inet6 )(?P<inet6>[^/]+)/(?P<inet6_mask>\d{1,2}))

\* \d{1,2} at position i: one digit, and a second one if it is there.
MaskAt(t, i) == IF IsDigit(At(t, i + 1)) THEN Slice(t, i, i + 1) ELSE Slice(t, i, i)

\* The literal 'inet ' at i, one or more non-'/' atoms, '/', a digit.
InetAt(t, i) == /\ At(t, i) = "inet"
                /\ At(t, i + 1) = SP
                /\ FirstSlash(t, i + 2) > i + 2
                /\ IsDigit(At(t, FirstSlash(t, i + 2) + 1))

InetMatches(t) == \E i \in 1..Len(t) : InetAt(t, i)

\* The groups for 'inet ' at i and '/' at j: \s* is greedy but leaves one
\* atom to [^/]+.
InetGroupsTo(t, i, j) ==
    [inet |-> Slice(t, Min({x \in (i + 2)..(j - 1) : ~IsSpace(t[x]) \/ x = j - 1}),
                    j - 1),
     inet_mask |-> MaskAt(t, j + 1)]

InetGroupsAt(t, i) == InetGroupsTo(t, i, FirstSlash(t, i + 2))

InetGroups(t) == InetGroupsAt(t, Min({x \in 1..Len(t) : InetAt(t, x)}))

\* A position p right after the literal 'inet6 ', then as above.
Inet6At(t, p) == /\ At(t, p - 2) = "inet6"
                 /\ At(t, p - 1) = SP
                 /\ FirstSlash(t, p) > p
                 /\ IsDigit(At(t, FirstSlash(t, p) + 1))

Inet6Matches(t) == \E p \in 1..Len(t) : Inet6At(t, p)

Inet6GroupsTo(t, p, j) ==
    [inet6 |-> Slice(t, p, j - 1), inet6_mask |-> MaskAt(t, j + 1)]

Inet6GroupsAt(t, p) == Inet6GroupsTo(t, p, FirstSlash(t, p))

Inet6Groups(t) == Inet6GroupsAt(t, Min({x \in 1..Len(t) : Inet6At(t, x)}))

----------------------------------------------------------------------------
(* _parse_ip_addr_show                                                     *)

\* dict.update: the entries of new on top of those of old.
update(old, new) == new @@ old

\* The cleanup loop: a value made of digits only becomes an integer.
Cleanup(d) == [k \in DOMAIN d |-> IF isdigit(d[k]) THEN IntVal(int(d[k]))
                                  ELSE StrVal(d[k])]

\* The result: None, a dictionary, or the AttributeError raised by
\* re_result.groupdict() when the 'always there' group does not match.
\* 'seek inet if its there'
SeekInet(raw_result, result) ==
    IF InetMatches(raw_result) THEN update(result, InetGroups(raw_result))
    ELSE result

\* 'seek inet6 if its there'
SeekInet6(raw_result, result) ==
    IF Inet6Matches(raw_result) THEN update(result, Inet6Groups(raw_result))
    ELSE result

\* Mutant: the 'does not exist' test is left out.
_parse_ip_addr_show_nomarker(raw_result) ==
    IF ~MandatoryMatches(raw_result)
    THEN [status |-> "AttributeError", d |-> <<>>]
    ELSE [status |-> "dict",
          d |-> Cleanup(SeekInet6(raw_result,
                        SeekInet(raw_result, MandatoryGroups(raw_result))))]

_parse_ip_addr_show(raw_result) ==
    IF HasMarker(raw_result) THEN [status |-> "None", d |-> <<>>]
    ELSE IF ~MandatoryMatches(raw_result)
         THEN [status |-> "AttributeError", d |-> <<>>]
         ELSE [status |-> "dict",
               d |-> Cleanup(SeekInet6(raw_result,
                             SeekInet(raw_result, MandatoryGroups(raw_result))))]


----------------------------------------------------------------------------
\* _parse_ip_stats_link_show: matched at the start of the text, DOTALL, as
\*   .+?RX:.*?\n\s*(\d+)\s+(\d+)\s+(\d+)\s+(\d+)\s+(\d+)\s+(\d+)
\*   .+?TX:.*?\n\s*(\d+)\s+(\d+)\s+(\d+)\s+(\d+)\s+(\d+)\s+(\d+)

RECURSIVE Runs(_, _, _)
\* Start of the k-th of k runs of digits separated by blanks, the first one
\* starting at a; 0 if there are no k such runs.
Runs(t, a, k) == IF ~IsDigit(At(t, a)) THEN 0
                 ELSE IF k = 1 THEN a
                 ELSE Runs(t, AfterSpaces(t, DigitRunEnd(t, a) + 1), k - 1)

\* Start of the first run of six after the line break at n, or 0.
SixAfter(t, n) == IF At(t, n) # NL THEN 0
                  ELSE Runs(t, FirstNonSpace(t, n + 1), 6)

\* TX: at position x, a line break after it, and six numbers.
TxAt(t, x) == /\ At(t, x) = "TX"
              /\ At(t, x + 1) = COLON
              /\ \E n \in (x + 2)..Len(t) : SixAfter(t, n) # 0

\* The sixth number after the line break at n ends at e6, and the TX: part
\* follows after one more atom at least.
SixAt(t, n, e6) == /\ SixAfter(t, n) # 0
                   /\ e6 \in SixAfter(t, n)..DigitRunEnd(t, SixAfter(t, n))
                   /\ \E x \in (e6 + 2)..Len(t) : TxAt(t, x)

\* The line break at n is followed by six numbers and the TX: part.
LineAt(t, n) ==
    /\ SixAfter(t, n) # 0
    /\ \E e6 \in SixAfter(t, n)..DigitRunEnd(t, SixAfter(t, n)) : SixAt(t, n, e6)

\* RX: at position i after at least one atom, and the rest after it.
RxAt(t, i) == /\ i >= 2
              /\ At(t, i) = "RX"
              /\ At(t, i + 1) = COLON
              /\ \E n \in (i + 2)..Len(t) : LineAt(t, n)

StatsMatches(t) == \E i \in 1..Len(t) : RxAt(t, i)

RECURSIVE Numbers(_, _, _)
\* The k numbers of a run of k that starts at a.
Numbers(t, a, k) == IF k = 0 THEN <<>>
                    ELSE <<Slice(t, a, DigitRunEnd(t, a))>> \o
                         Numbers(t, AfterSpaces(t, DigitRunEnd(t, a) + 1), k - 1)

\* groupdict() of the match: lazy parts take the first feasible position,
\* greedy ones the last.
TxGroups(tx) ==
    [tx_bytes |-> tx[1], tx_packets |-> tx[2], tx_errors |-> tx[3],
     tx_dropped |-> tx[4], tx_carrier |-> tx[5], tx_collisions |-> tx[6]]

\* The TX numbers, for TX: at x: '.*?' runs to the first line break that
\* is followed by six numbers.
TxGroupsAt(t, x) ==
    TxGroups(Numbers(t, FirstNonSpace(t,
                Min({a \in (x + 2)..Len(t) : SixAfter(t, a) # 0}) + 1), 6))

RxGroups(rx, rx_mcast) ==
    [rx_bytes |-> rx[1], rx_packets |-> rx[2], rx_errors |-> rx[3],
     rx_dropped |-> rx[4], rx_overrun |-> rx[5], rx_mcast |-> rx_mcast]

\* The RX numbers, for the line break at n and the sixth number from s6 to
\* e6; '.+?' then runs to the first TX: that leaves a match.
RxGroupsTo(t, n, s6, e6) ==
    RxGroups(Numbers(t, FirstNonSpace(t, n + 1), 5), Slice(t, s6, e6))
    @@ TxGroupsAt(t, Min({a \in (e6 + 2)..Len(t) : TxAt(t, a)}))

\* The sixth '\d+' takes as many digits as leave a match.
RxGroupsAt(t, n) ==
    RxGroupsTo(t, n, SixAfter(t, n), Max({a \in n..Len(t) : SixAt(t, n, a)}))

\* '.*?' after RX: runs to the first line break that leaves a match.
StatsGroupsAt(t, i) ==
    RxGroupsAt(t, Min({a \in (i + 2)..Len(t) : LineAt(t, a)}))

\* '.+?' runs to the first RX: that leaves a match.
StatsGroups(t) == StatsGroupsAt(t, Min({a \in 1..Len(t) : RxAt(t, a)}))

\* The result: None when the structure is not there, else the dictionary.
_parse_ip_stats_link_show(raw_result) ==
    IF StatsMatches(raw_result)
    THEN [status |-> "dict", d |-> Cleanup(StatsGroups(raw_result))]
    ELSE [status |-> "None", d |-> <<>>]

----------------------------------------------------------------------------
(* Texts the executor may answer with                                      *)

\* Lines of 'ip addr list dev' output.
MarkLine == <<"Device", SP, "\"eth7\"", SP, DNE, ".", NL>>
HeadLine == <<"2", COLON, SP, "eth0", COLON, SP, LT, "BROADCAST,UP", GT, SP,
              "mtu", SP, "1", "5", "0", "0", SP, "state", SP, "UP", NL>>
LinkLine == <<SP, "link", SLASH, "ether", SP, "00:50:56:01:2e:f6", SP,
              "brd", SP, "ff:ff:ff:ff:ff:ff", NL>>
InetLine == <<SP, "inet", SP, "20.1.1.2", SLASH, "2", "4", SP, "scope", SP,
              "global", NL>>
InetPeerLine == <<SP, "inet", SP, "10.0.0.1", SP, "peer", SP, "10.0.0.2",
                  SLASH, "3", "2", SP, "scope", SP, "global", NL>>
Inet6Line == <<SP, "inet6", SP, "fe80::1", SLASH, "6", "4", SP, "scope", SP,
               "link", NL>>
Inet6HostLine == <<SP, "inet6", SP, "::1", SLASH, "1", "2", "8", SP, "scope",
                   SP, "host", NL>>
LftLine == <<SP, "valid_lft", SP, "forever", NL>>

ConfigLines == {MarkLine, HeadLine \o LinkLine, HeadLine, InetLine,
                InetPeerLine, Inet6Line, Inet6HostLine, LftLine}

\* Lines of 'ip -s link list dev' output.
RxLine == <<SP, "RX", COLON, SP, "bytes", SP, "packets", NL>>
TxLine == <<SP, "TX", COLON, SP, "bytes", SP, "packets", NL>>
RxCounters == <<SP, "1", "0", "0", SP, "5", "0", SP, "0", SP, "0", SP, "0",
                SP, "2", NL>>
TxCounters == <<SP, "2", "0", "0", SP, "6", "0", SP, "1", SP, "0", SP, "0",
                SP, "0", NL>>
FiveCounters == <<SP, "7", SP, "7", SP, "7", SP, "7", SP, "7", NL>>

StatsLines == {HeadLine, RxLine, TxLine, RxCounters, TxCounters, FiveCounters}

\* Largest number of lines in a generated text.
MaxLines == 3
MaxStatsLines == 4

RECURSIVE Flatten(_)
\* The text made of the lines ls.
Flatten(ls) == IF Len(ls) = 0 THEN <<>> ELSE Head(ls) \o Flatten(Tail(ls))

TextsOf(lines, n) == {Flatten(ls) : ls \in UNION {[1..k -> lines] : k \in 0..n}}

ConfigTexts == TextsOf(ConfigLines, MaxLines)
StatsTexts == TextsOf(StatsLines, MaxStatsLines)


----------------------------------------------------------------------------
(* The ipaddress library, on the address literals the callers pass         *)

AddrInputs == {"192.168.20.20/24", "2001::1/120", "bogus"}
RouteInputs == {"default", "192.168.20.0/24", "2001::/64", "192.168.20.20/24", "bogus"}
ViaInputs == {"192.168.20.1", "2001::1", "2001:0::1", "192.168.20.20/24", "bogus"}

V4Interfaces == {"192.168.20.20/24", "192.168.20.0/24", "192.168.20.1"}
V6Interfaces == {"2001::1/120", "2001::/64", "2001::1", "2001:0::1"}
V4Addresses == {"192.168.20.1"}
V6Addresses == {"2001::1", "2001:0::1"}
\* ip_network is strict: a literal with host bits set is refused.
V4Networks == {"192.168.20.0/24", "192.168.20.1"}
V6Networks == {"2001::/64", "2001::1", "2001:0::1"}

\* ip_interface(addr) returns (an object that is true) or raises ValueError.
ip_interface(addr) == addr \in V4Interfaces \cup V6Interfaces

\* ip_address(via): "ValueError", or the address with its version and its
\* canonical text.
ip_address(via) ==
    IF via \in V4Addresses THEN [ok |-> TRUE, version |-> 4, str |-> via]
    ELSE IF via \in V6Addresses
         THEN [ok |-> TRUE, version |-> 6,
               str |-> IF via = "2001:0::1" THEN "2001::1" ELSE via]
         ELSE [ok |-> FALSE, version |-> 0, str |-> ""]

\* ip_network(route): "ValueError", or the network with its version.
ip_network(route) ==
    IF route \in V4Networks THEN [ok |-> TRUE, version |-> 4]
    ELSE IF route \in V6Networks THEN [ok |-> TRUE, version |-> 6]
    ELSE [ok |-> FALSE, version |-> 0]

----------------------------------------------------------------------------
(* The engine node: the port directory and the command executor            *)

\* What the executor answers to a configuration command: nothing, or text.
Responses == {"", "RTNETLINK answers: File exists"}

\* Mutant: the responses are not asserted empty, every command is issued.
IssuedAll(plan, rs) == [k \in 1..Len(plan) |-> [cmd |-> plan[k], response |-> rs[k]]]

\* enode(cmd, shell=shell) followed by 'assert not response', for each
\* command of plan in order: the commands handed to the executor with their
\* responses, up to and including the first one answered with text.
Issued(plan, rs) ==
    LET bad == {k \in 1..Len(plan) : rs[k] # ""}
        n == IF bad = {} THEN Len(plan) ELSE Min(bad)
    IN [k \in 1..n |-> [cmd |-> plan[k], response |-> rs[k]]]

\* "return" when every response was empty, else the failed assertion.
Outcome(plan, rs) == IF \E k \in 1..Len(plan) : rs[k] # ""
                     THEN "AssertionError" ELSE "return"

NoArgs == [portlbl |-> None, subint |-> None, addr |-> None, up |-> None,
           route |-> None, via |-> None, name |-> None, vlan_id |-> None,
           dev |-> None]

NoResult == [status |-> "None", d |-> <<>>]

\* The record of one call: its arguments, the commands handed to the
\* executor in order, how it ended and what it returned.
Call(op, args, cmds, outcome, result) ==
    [op |-> op, args |-> args, cmds |-> cmds, outcome |-> outcome,
     result |-> result]

Returned(op, args, run) == Call(op, args, run.cmds, run.outcome, run.result)

----------------------------------------------------------------------------
(* interface                                                               *)

AddrAddCmd(addr, port) == <<"ip", "addr", "add", addr, "dev", port>>

LinkSetCmd(port, up) ==
    <<"ip", "link", "set", "dev", port, IF up = "True" THEN "up" ELSE "down">>

\* The exception raised before any command, or "ok".
interface_check(P, portlbl, addr) ==
    IF portlbl = "" THEN "AssertionError"
    ELSE IF portlbl \notin DOMAIN P THEN "KeyError"
    ELSE IF addr # None /\ ~ip_interface(addr) THEN "ValueError"
    ELSE "ok"

\* Mutant: the link state is set before the address is added.
interface_cmds_link_first(port, addr, up) ==
    (IF up # None THEN <<LinkSetCmd(port, up)>> ELSE <<>>) \o
    (IF addr # None THEN <<AddrAddCmd(addr, port)>> ELSE <<>>)

\* The commands of interface, in the order they are issued.
interface_cmds(port, addr, up) ==
    (IF addr # None THEN <<AddrAddCmd(addr, port)>> ELSE <<>>) \o
    (IF up # None THEN <<LinkSetCmd(port, up)>> ELSE <<>>)

----------------------------------------------------------------------------
(* sub_interface                                                           *)

sub_interface_check(P, portlbl, subint, addr) ==
    IF portlbl = "" \/ subint = "" THEN "AssertionError"
    ELSE IF portlbl \notin DOMAIN P THEN "KeyError"
    ELSE IF addr # None /\ ~ip_interface(addr) THEN "ValueError"
    ELSE "ok"

SubPort(port, subint) == port \o "." \o subint

\* Mutant: the parent is brought up after the sub interface.
sub_interface_cmds_parent_last(port, subint, addr, up) ==
    (IF addr # None THEN <<AddrAddCmd(addr, SubPort(port, subint))>> ELSE <<>>) \o
    (IF up # None
     THEN <<LinkSetCmd(SubPort(port, subint), up)>> \o
          (IF up = "True" THEN interface_cmds(port, None, up) ELSE <<>>)
     ELSE <<>>)

\* Mutant: the address is handed on to interface() on the parent as well.
sub_interface_cmds_addr_twice(port, subint, addr, up) ==
    (IF addr # None THEN <<AddrAddCmd(addr, SubPort(port, subint))>> ELSE <<>>) \o
    (IF up # None
     THEN (IF up = "True" THEN interface_cmds(port, addr, up) ELSE <<>>) \o
          <<LinkSetCmd(SubPort(port, subint), up)>>
     ELSE <<>>)

\* The commands of sub_interface; bringing the sub interface up first runs
\* interface(enode, portlbl, up=up) on the parent.
sub_interface_cmds(port, subint, addr, up) ==
    (IF addr # None THEN <<AddrAddCmd(addr, SubPort(port, subint))>> ELSE <<>>) \o
    (IF up # None
     THEN (IF up = "True" THEN interface_cmds(port, None, up) ELSE <<>>) \o
          <<LinkSetCmd(SubPort(port, subint), up)>>
     ELSE <<>>)

----------------------------------------------------------------------------
(* remove_ip                                                               *)

remove_ip_check(P, portlbl, addr) ==
    IF portlbl = "" THEN "AssertionError"
    ELSE IF ~ip_interface(addr) THEN "ValueError"
    ELSE IF portlbl \notin DOMAIN P THEN "KeyError"
    ELSE "ok"

remove_ip_cmds(port, addr) == << <<"ip", "addr", "del", addr, "dev", port>> >>

----------------------------------------------------------------------------
(* add_route                                                               *)

\* ip_network(route) is evaluated only when the gateway is not IPv6 and the
\* route is not 'default'.
add_route_check(route, via) ==
    IF ~ip_address(via).ok THEN "ValueError"
    ELSE IF ip_address(via).version # 6 /\ route # "default"
            /\ ~ip_network(route).ok
         THEN "ValueError"
         ELSE "ok"

\* Mutant: the family is taken from the gateway alone.
add_route_version_gateway_only(route, via) ==
    IF ip_address(via).version = 6 THEN "-6" ELSE "-4"

add_route_version(route, via) ==
    IF ip_address(via).version = 6
       \/ (route # "default" /\ ip_network(route).version = 6)
    THEN "-6" ELSE "-4"

add_route_cmds(route, via) ==
    << <<"ip", add_route_version(route, via), "route", "add", route, "via",
         ip_address(via).str>> >>

----------------------------------------------------------------------------
(* add_link_type_vlan, remove_link_type_vlan                               *)

\* Mutant: the name is not looked up in the directory.
add_link_type_vlan_check_unchecked(P, portlbl, name, vlan_id) ==
    IF name = "" THEN "AssertionError"
    ELSE IF portlbl = "" \/ vlan_id = "" THEN "AssertionError"
    ELSE IF portlbl \notin DOMAIN P THEN "KeyError"
    ELSE "ok"

add_link_type_vlan_check(P, portlbl, name, vlan_id) ==
    IF name = "" THEN "AssertionError"
    ELSE IF name \in DOMAIN P THEN "ValueError"
    ELSE IF portlbl = "" \/ vlan_id = "" THEN "AssertionError"
    ELSE IF portlbl \notin DOMAIN P THEN "KeyError"
    ELSE "ok"

add_link_type_vlan_cmds(port, name, vlan_id) ==
    << <<"ip", "link", "add", "link", port, "name", name, "type", "vlan",
         "id", vlan_id>> >>

remove_link_type_vlan_check(P, name) ==
    IF name = "" THEN "AssertionError"
    ELSE IF name \notin DOMAIN P THEN "ValueError"
    ELSE "ok"

remove_link_type_vlan_cmds(name) ==
    << <<"ip", "link", "del", "link", "dev", name>> >>

\* enode.ports[name] = name
PortsAdd(P, name) == [l \in DOMAIN P \cup {name} |-> IF l = name THEN name ELSE P[l]]

\* del enode.ports[name]
PortsDel(P, name) == [l \in DOMAIN P \ {name} |-> P[l]]


----------------------------------------------------------------------------
(* show_interface                                                          *)

ShowAddrCmd(dev) == <<"ip", "addr", "list", "dev", dev>>
ShowStatsCmd(dev) == <<"ip", "-s", "link", "list", "dev", dev>>

\* 'if (first_half_dict)': a dictionary that is not empty.
Truthy(r) == r.status = "dict" /\ DOMAIN r.d # {}

\* show_interface with the executor answering r1 to the first command and
\* r2 to the second: the commands issued, how the call ends, what it returns.
\* d.update(None) raises TypeError.
\* Mutant: statistics that did not parse are skipped, d.update(... or {}).
show_interface_stats_partial(c1, c2, first_half_dict, second_half_dict) ==
    [cmds |-> <<c1, c2>>, outcome |-> "return",
     result |-> [status |-> "dict",
                 d |-> IF second_half_dict.status = "None" THEN first_half_dict.d
                       ELSE update(first_half_dict.d, second_half_dict.d)]]

\* The second half: d = first_half_dict.copy(); d.update(second_half_dict).
show_interface_stats(c1, c2, first_half_dict, second_half_dict) ==
    IF second_half_dict.status = "None"
    THEN [cmds |-> <<c1, c2>>, outcome |-> "TypeError", result |-> NoResult]
    ELSE [cmds |-> <<c1, c2>>, outcome |-> "return",
          result |-> [status |-> "dict",
                      d |-> update(first_half_dict.d, second_half_dict.d)]]

\* The first half: the statistics are asked for only 'if (first_half_dict)'.
show_interface_addr(c1, c2, first_half_dict) ==
    IF first_half_dict.status = "AttributeError"
    THEN [cmds |-> <<c1>>, outcome |-> "AttributeError", result |-> NoResult]
    ELSE IF ~Truthy(first_half_dict)
    THEN [cmds |-> <<c1>>, outcome |-> "return", result |-> NoResult]
    ELSE show_interface_stats(c1, c2, first_half_dict,
                              _parse_ip_stats_link_show(c2.response))

show_interface(dev, r1, r2) ==
    IF dev = ""
    THEN [cmds |-> <<>>, outcome |-> "AssertionError", result |-> NoResult]
    ELSE show_interface_addr([cmd |-> ShowAddrCmd(dev), response |-> r1],
                             [cmd |-> ShowStatsCmd(dev), response |-> r2],
                             _parse_ip_addr_show(r1))

----------------------------------------------------------------------------
(* Arguments of the calls                                                  *)

PortLabels == {"", "1", "7"}
SubInts == {"", "5"}
UpInputs == {None, "True", "False"}
VlanNames == {"", "1", "vlan10"}
VlanIds == {"", "10"}
Devs == {"", "eth7"}

\* What the executor answers to the two queries of show_interface.
ShowAddrLines == {MarkLine, HeadLine \o LinkLine, InetLine}
MaxShowLines == 2
ShowAddrResponses == TextsOf(ShowAddrLines, MaxShowLines)
ShowStatsResponses ==
    {<<>>,
     HeadLine \o LinkLine \o RxLine \o RxCounters \o TxLine \o TxCounters,
     HeadLine \o LinkLine \o RxLine \o RxCounters,
     HeadLine \o LinkLine \o RxLine \o FiveCounters \o TxLine \o TxCounters,
     HeadLine \o LinkLine \o TxLine \o TxCounters \o RxLine \o RxCounters}

InitPorts == [l \in {"1"} |-> "eth1"]
NoCall == Call("none", NoArgs, <<>>, "return", NoResult)
NoInput == [kind |-> "none", text |-> <<>>]

----------------------------------------------------------------------------
(* The calls                                                               *)

\* A call that fails its checks hands nothing to the executor; else the
\* executor answers each command of plan and the call ends at the first
\* answer that is not empty.
Configure(op, args, check, plan) ==
    IF check # "ok"
    THEN call' = Call(op, args, <<>>, check, NoResult)
    ELSE \E rs \in [1..Len(plan) -> Responses] :
            call' = Call(op, args, Issued(plan, rs), Outcome(plan, rs), NoResult)

Interface ==
    \E portlbl \in PortLabels, addr \in AddrInputs \cup {None}, up \in UpInputs :
        LET check == interface_check(ports, portlbl, addr)
            plan == IF check = "ok"
                    THEN interface_cmds(ports[portlbl], addr, up) ELSE <<>>
        IN /\ Configure("interface",
                        [NoArgs EXCEPT !.portlbl = portlbl, !.addr = addr, !.up = up],
                        check, plan)
           /\ UNCHANGED <<ports, input>>

SubInterface ==
    \E portlbl \in PortLabels, subint \in SubInts,
       addr \in AddrInputs \cup {None}, up \in UpInputs :
        LET check == sub_interface_check(ports, portlbl, subint, addr)
            plan == IF check = "ok"
                    THEN sub_interface_cmds(ports[portlbl], subint, addr, up)
                    ELSE <<>>
        IN /\ Configure("sub_interface",
                        [NoArgs EXCEPT !.portlbl = portlbl, !.subint = subint,
                                       !.addr = addr, !.up = up],
                        check, plan)
           /\ UNCHANGED <<ports, input>>

RemoveIp ==
    \E portlbl \in PortLabels, addr \in AddrInputs :
        LET check == remove_ip_check(ports, portlbl, addr)
            plan == IF check = "ok"
                    THEN remove_ip_cmds(ports[portlbl], addr) ELSE <<>>
        IN /\ Configure("remove_ip",
                        [NoArgs EXCEPT !.portlbl = portlbl, !.addr = addr],
                        check, plan)
           /\ UNCHANGED <<ports, input>>

AddRoute ==
    \E route \in RouteInputs, via \in ViaInputs :
        LET check == add_route_check(route, via)
            plan == IF check = "ok" THEN add_route_cmds(route, via) ELSE <<>>
        IN /\ Configure("add_route",
                        [NoArgs EXCEPT !.route = route, !.via = via],
                        check, plan)
           /\ UNCHANGED <<ports, input>>

AddLinkTypeVlan ==
    \E portlbl \in PortLabels, name \in VlanNames, vlan_id \in VlanIds :
        LET check == add_link_type_vlan_check(ports, portlbl, name, vlan_id)
            plan == IF check = "ok"
                    THEN add_link_type_vlan_cmds(ports[portlbl], name, vlan_id)
                    ELSE <<>>
        IN /\ Configure("add_link_type_vlan",
                        [NoArgs EXCEPT !.portlbl = portlbl, !.name = name,
                                       !.vlan_id = vlan_id],
                        check, plan)
           /\ ports' = IF check = "ok" /\ call'.outcome = "return"
                       THEN PortsAdd(ports, name) ELSE ports
           /\ UNCHANGED input

RemoveLinkTypeVlan ==
    \E name \in VlanNames :
        LET check == remove_link_type_vlan_check(ports, name)
            plan == IF check = "ok" THEN remove_link_type_vlan_cmds(name) ELSE <<>>
        IN /\ Configure("remove_link_type_vlan",
                        [NoArgs EXCEPT !.name = name], check, plan)
           /\ ports' = IF check = "ok" /\ call'.outcome = "return"
                       THEN PortsDel(ports, name) ELSE ports
           /\ UNCHANGED input

\* The runs of show_interface, for every device and pair of answers.
ShowRuns == [dev \in Devs, r1 \in ShowAddrResponses, r2 \in ShowStatsResponses |->
                show_interface(dev, r1, r2)]

ShowInterface ==
    \E dev \in Devs, r1 \in ShowAddrResponses, r2 \in ShowStatsResponses :
        /\ call' = Returned("show_interface", [NoArgs EXCEPT !.dev = dev],
                            ShowRuns[dev, r1, r2])
        /\ UNCHANGED <<ports, input>>

Init == /\ ports = InitPorts
        /\ call = NoCall
        /\ input = NoInput

Next == \/ Interface
        \/ SubInterface
        \/ RemoveIp
        \/ AddRoute
        \/ AddLinkTypeVlan
        \/ RemoveLinkTypeVlan
        \/ ShowInterface

Spec == Init /\ [][Next]_vars

----------------------------------------------------------------------------
(* The parsers on their own, on every text of up to MaxLines lines         *)

ParseInputs == {[kind |-> "addr", text |-> t] : t \in ConfigTexts}
               \cup {[kind |-> "stats", text |-> t] : t \in StatsTexts}

\* A parser's call: what it returns, or the exception it raises.
Parsed(op, r) ==
    Call(op, NoArgs, <<>>,
         IF r.status = "AttributeError" THEN r.status ELSE "return",
         IF r.status = "AttributeError" THEN NoResult ELSE r)

ParseIpAddrShow ==
    /\ input.kind = "addr"
    /\ call' = Parsed("_parse_ip_addr_show", _parse_ip_addr_show(input.text))
    /\ UNCHANGED <<ports, input>>

ParseIpStatsLinkShow ==
    /\ input.kind = "stats"
    /\ call' = Parsed("_parse_ip_stats_link_show",
                      _parse_ip_stats_link_show(input.text))
    /\ UNCHANGED <<ports, input>>

InitParse == /\ ports = InitPorts
             /\ call = NoCall
             /\ input \in ParseInputs

NextParse == ParseIpAddrShow \/ ParseIpStatsLinkShow

SpecParse == InitParse /\ [][NextParse]_vars


----------------------------------------------------------------------------
(* Properties                                                              *)

WriteOps == {"interface", "sub_interface", "remove_ip", "add_route",
             "add_link_type_vlan", "remove_link_type_vlan"}

\* The commands of the last call, in the order they reached the executor.
Cmds == [k \in 1..Len(call.cmds) |-> call.cmds[k].cmd]

ValidInterfaces == V4Interfaces \cup V6Interfaces
ValidAddresses == V4Addresses \cup V6Addresses

\* The text holds a quoted device name, a blank and 'does not exist'.
MarkerIn(t) == \E i \in 1..Len(t) :
                  t[i] \in Quoted /\ At(t, i + 1) = SP /\ At(t, i + 2) = DNE

\* C1: show_interface whose first response contains the '"<dev>" does not
\* exist' marker returns None after exactly one command, the 'ip addr list
\* dev' query; the 'ip -s link list dev' command is not issued, whatever
\* else the response holds.
C1_ShowAbsentOnMarker ==
    (call.op = "show_interface" /\ Len(call.cmds) >= 1
        /\ MarkerIn(call.cmds[1].response))
    => /\ call.outcome = "return"
       /\ call.result.status = "None"
       /\ Cmds = << <<"ip", "addr", "list", "dev", call.args.dev>> >>
       /\ \A k \in 1..Len(Cmds) : Cmds[k][2] # "-s"

\* A marker followed by a complete head, which would parse on its own.
C1_Witness ==
    /\ call.op = "show_interface"
    /\ Len(call.cmds) = 1
    /\ call.cmds[1].response = MarkLine \o HeadLine \o LinkLine
    /\ call.result.status = "None"

\* C2: in any sequence of add_link_type_vlan and remove_link_type_vlan
\* calls, adding a name that is in the directory, and removing a name that
\* is not, fail before any command is issued and leave the directory as it
\* was.
C2_VlanDirectoryChecked ==
    [][/\ (call'.op = "add_link_type_vlan" /\ call'.args.name \in DOMAIN ports)
          => /\ call'.cmds = <<>>
             /\ call'.outcome = "ValueError"
             /\ ports' = ports
       /\ (call'.op = "remove_link_type_vlan" /\ call'.args.name \notin DOMAIN ports)
          => /\ call'.cmds = <<>>
             /\ call'.outcome \in {"ValueError", "AssertionError"}
             /\ ports' = ports]_vars

\* A second add of vlan10, which only an earlier add can have registered.
C2_Witness ==
    /\ call.op = "add_link_type_vlan"
    /\ call.args.name = "vlan10"
    /\ "vlan10" \in DOMAIN ports
    /\ call.outcome = "ValueError"
    /\ call.cmds = <<>>

\* C3: add_route that issues its command selects '-6' exactly when the
\* gateway is an IPv6 address or the destination is not 'default' and is an
\* IPv6 network, and '-4' otherwise; a 'default' destination takes its
\* family from the gateway alone; the destination is in the one command as
\* given.
C3_RouteFamily ==
    (call.op = "add_route" /\ call.cmds # <<>>)
    => /\ Len(call.cmds) = 1
       /\ Cmds[1][2] = IF \/ call.args.via \in V6Addresses
                          \/ (call.args.route # "default"
                              /\ call.args.route \in V6Networks)
                       THEN "-6" ELSE "-4"
       /\ (call.args.route = "default"
           => (Cmds[1][2] = "-6" <=> call.args.via \in V6Addresses))
       /\ Cmds[1][5] = call.args.route

C3_Witness ==
    /\ call.op = "add_route"
    /\ call.args.route = "default"
    /\ call.args.via \in V6Addresses
    /\ Len(call.cmds) = 1
    /\ Cmds[1][2] = "-6"

\* The last call is interface with a known port and addr absent or valid.
InterfaceCase ==
    /\ call.op = "interface"
    /\ call.args.portlbl # ""
    /\ call.args.portlbl \in DOMAIN ports
    /\ call.args.addr \in ValidInterfaces \cup {None}

AddrCmdOf(c) == <<"ip", "addr", "add", c.args.addr, "dev", ports[c.args.portlbl]>>

LinkCmdOf(c) == <<"ip", "link", "set", "dev", ports[c.args.portlbl],
                  IF c.args.up = "True" THEN "up" ELSE "down">>

\* C4 as stated: interface emits the address command if and only if addr is
\* given and the link-state command if and only if up is given, address
\* first, and nothing else.
C4_Original ==
    InterfaceCase
    => Cmds = (IF call.args.addr # None THEN <<AddrCmdOf(call)>> ELSE <<>>)
              \o (IF call.args.up # None THEN <<LinkCmdOf(call)>> ELSE <<>>)

\* C4 as amended: interface emits the address command if and only if addr
\* is given, and the link-state command if and only if up is given and the
\* address command, when there is one, was answered with an empty response;
\* address first, and nothing else.
C4_InterfaceCommands ==
    InterfaceCase
    => Cmds = (IF call.args.addr # None THEN <<AddrCmdOf(call)>> ELSE <<>>)
              \o (IF /\ call.args.up # None
                     /\ (call.args.addr = None \/ call.cmds[1].response = "")
                  THEN <<LinkCmdOf(call)>> ELSE <<>>)

\* Both given, both issued.
C4_Witness ==
    /\ InterfaceCase
    /\ call.args.addr # None
    /\ call.args.up # None
    /\ Len(call.cmds) = 2

\* The device a configuration command names.
CmdDev(cmd) == IF cmd[2] = "addr" THEN cmd[6] ELSE cmd[5]

ParentUpCmd(c) == <<"ip", "link", "set", "dev", ports[c.args.portlbl], "up">>

\* C5: in sub_interface with up true, the link-state command of the sub
\* interface is issued only after 'ip link set dev <port> up' was issued
\* and answered with an empty response, and that command is issued once the
\* address step is passed; with up false or absent no command names the
\* parent device.
C5_ParentUpFirst ==
    (call.op = "sub_interface" /\ call.cmds # <<>>)
    => /\ \A k \in 1..Len(Cmds) :
            (/\ call.args.up = "True"
             /\ Cmds[k][2] = "link"
             /\ Cmds[k][5] = ports[call.args.portlbl] \o "." \o call.args.subint)
            => \E j \in 1..(k - 1) : /\ Cmds[j] = ParentUpCmd(call)
                                     /\ call.cmds[j].response = ""
       /\ (call.args.up = "True"
           /\ (call.args.addr = None \/ call.cmds[1].response = ""))
          => \E j \in 1..Len(Cmds) : Cmds[j] = ParentUpCmd(call)
       /\ call.args.up # "True"
          => \A k \in 1..Len(Cmds) : CmdDev(Cmds[k]) # ports[call.args.portlbl]

\* Address, parent up, sub interface up.
C5_Witness ==
    /\ call.op = "sub_interface"
    /\ call.args.up = "True"
    /\ Len(call.cmds) = 3
    /\ Cmds[2] = ParentUpCmd(call)
    /\ Cmds[3][5] = ports[call.args.portlbl] \o "." \o call.args.subint

\* C6 as stated: interface, sub_interface, remove_ip and add_route fail
\* before any command is issued when the address, the gateway or a
\* destination other than 'default' is not syntactically valid.
C6_InvalidInputRejected ==
    (\/ /\ call.op \in {"interface", "sub_interface", "remove_ip"}
        /\ call.args.addr \notin ValidInterfaces \cup {None}
     \/ /\ call.op = "add_route"
        /\ \/ call.args.via \notin ValidAddresses
           \/ call.args.route \notin ValidInterfaces \cup {"default"})
    => /\ call.cmds = <<>>
       /\ call.outcome # "return"

\* C7: in a write operation the first command answered with text is the
\* last one issued, the call fails, and the directory stays as it was.
C7_NonEmptyResponseFails ==
    [][(/\ call'.op \in WriteOps
        /\ \E k \in 1..Len(call'.cmds) : call'.cmds[k].response # "")
       => /\ \A k \in 1..Len(call'.cmds) :
               call'.cmds[k].response # "" => k = Len(call'.cmds)
          /\ call'.outcome = "AssertionError"
          /\ ports' = ports]_vars

\* A VLAN add whose command was answered with text: the name is not there.
C7_Witness ==
    /\ call.op = "add_link_type_vlan"
    /\ Len(call.cmds) = 1
    /\ call.cmds[1].response # ""
    /\ call.outcome = "AssertionError"
    /\ call.args.name \notin DOMAIN ports

\* C8 as stated: a call hands at most two commands to the executor.
C8_Original == Len(call.cmds) <= 2

\* C8 as amended: a call hands at most three commands to the executor, and
\* three only in sub_interface with addr given and up true; every other
\* call hands at most two.
C8_AtMostThree ==
    /\ Len(call.cmds) <= 3
    /\ Len(call.cmds) = 3
       => /\ call.op = "sub_interface"
          /\ call.args.addr # None
          /\ call.args.up = "True"

C8_Witness == Len(call.cmds) = 3

\* marker, a blank, an address, '/', and a prefix of one or two digits.
BlockAt(t, i, marker) ==
    /\ At(t, i) = marker
    /\ At(t, i + 1) = SP
    /\ At(t, i + 2) \notin {"", SP, NL, SLASH}
    /\ At(t, i + 3) = SLASH
    /\ IsDigit(At(t, i + 4))
    /\ ~(IsDigit(At(t, i + 5)) /\ IsDigit(At(t, i + 6)))

HasBlock(t, marker) == \E i \in 1..Len(t) : BlockAt(t, i, marker)

\* Everything a record with key k says about the block of marker.
BlockFields(t, d, k, marker) ==
    /\ ({k, k \o "_mask"} \subseteq DOMAIN d) <=> HasBlock(t, marker)
    /\ ({k, k \o "_mask"} \cap DOMAIN d = {}) <=> ~HasBlock(t, marker)
    /\ k \in DOMAIN d
       => \E i \in 1..Len(t) : /\ BlockAt(t, i, marker)
                               /\ d[k] = StrVal(<<t[i + 2]>>)

\* C9 as stated: a record returned by _parse_ip_addr_show has inet and
\* inet_mask if and only if the text has an 'inet <addr>/<1-2 digit prefix>'
\* block, inet6 and inet6_mask if and only if it has such an 'inet6' block,
\* each address is that of its block, and digits-only values are integers
\* while the others stay text.
C9_OptionalBlocks ==
    (call.op = "_parse_ip_addr_show" /\ call.result.status = "dict")
    => /\ BlockFields(input.text, call.result.d, "inet", "inet")
       /\ BlockFields(input.text, call.result.d, "inet6", "inet6")
       /\ \A k \in DOMAIN call.result.d :
            call.result.d[k].t = IF k \in {"os_index", "mtu", "inet_mask", "inet6_mask"}
                                 THEN "int" ELSE "str"

MandatoryKeys == {"os_index", "dev", "falgs_str", "mtu", "state", "link_type",
                  "mac_address"}

StatsKeys == {"rx_bytes", "rx_packets", "rx_errors", "rx_dropped", "rx_overrun",
              "rx_mcast", "tx_bytes", "tx_packets", "tx_errors", "tx_dropped",
              "tx_carrier", "tx_collisions"}

\* The statistics text has no RX: or no TX: header.
LacksStructure(t) == \/ ~\E i \in 1..Len(t) : t[i] = "RX" /\ At(t, i + 1) = COLON
                     \/ ~\E i \in 1..Len(t) : t[i] = "TX" /\ At(t, i + 1) = COLON

\* C10: show_interface on a device ends in one of three ways: None after
\* one command, a failure raised to the caller, or a record with every
\* mandatory configuration field as parsed and the twelve counters as
\* integers; statistics without the RX/TX structure never give a record.
C10_NoPartialRecord ==
    (call.op = "show_interface" /\ call.args.dev # "")
    => /\ \/ /\ call.outcome = "return"
             /\ call.result.status = "None"
             /\ Len(call.cmds) = 1
          \/ /\ call.outcome \in {"AttributeError", "TypeError"}
             /\ call.result.status = "None"
          \/ /\ call.outcome = "return"
             /\ call.result.status = "dict"
             /\ Len(call.cmds) = 2
             /\ MandatoryKeys \cup StatsKeys \subseteq DOMAIN call.result.d
             /\ \A k \in StatsKeys : call.result.d[k].t = "int"
             /\ \A k \in MandatoryKeys :
                  call.result.d[k] = _parse_ip_addr_show(call.cmds[1].response).d[k]
       /\ (Len(call.cmds) = 2 /\ LacksStructure(call.cmds[2].response))
          => call.outcome = "TypeError"

\* A configuration that parses, statistics that stop before TX:.
C10_Witness ==
    /\ call.op = "show_interface"
    /\ Len(call.cmds) = 2
    /\ call.cmds[1].response = HeadLine \o LinkLine \o InetLine
    /\ LacksStructure(call.cmds[2].response)
    /\ call.outcome = "TypeError"


====
